---- MODULE Spec2Model ----
(***************************************************************************)
(* The in-memory sliding-window rate limiter of backend/src/middleware.py: *)
(* RateLimiter (its constructor, _get_client_key, _cleanup_old_requests,   *)
(* is_rate_limited) and the FastAPI dependency rate_limit_dependency that  *)
(* consults the process-wide instance.                                     *)
(*                                                                         *)
(* Time.  time.time() returns a float number of seconds.  The model counts *)
(* time in ticks of 1/TicksPerSecond second, so that a request can arrive  *)
(* between two whole seconds and int() (line 52) really truncates.         *)
(* window_seconds stays in seconds, as in the code.                        *)
(*                                                                         *)
(* Strings (header values, hosts, client keys) are sequences of one-       *)
(* character strings, so that split(",") and strip() are computed.         *)
(***************************************************************************)
EXTENDS Integers, Sequences, FiniteSets, TLC

VARIABLES
    constructed,     \* whether RateLimiter.__init__ has run
    max_requests,    \* self.max_requests
    window_seconds,  \* self.window_seconds
    clients,         \* self.clients: dict client key -> list of timestamps
    hist             \* the calls made so far, in order, with what each returned

vars == <<constructed, max_requests, window_seconds, clients, hist>>

-----------------------------------------------------------------------------
\* Bounds of the model.

\* ticks per second of the model's clock
TicksPerSecond == 2
\* time.time() returns one of 0 .. MaxTick (in ticks)
MaxTick == 4
\* number of requests served in one behaviour
MaxCalls == 3
\* RateLimiter(max_requests, window_seconds) with 1 .. MaxRequests
MaxRequests == 2
\* ... and 1 .. MaxWindow seconds
MaxWindow == 2

Ticks == 0 .. MaxTick

-----------------------------------------------------------------------------
\* Arithmetic and list helpers of Python used by the code.

Max2(a, b) == IF a >= b THEN a ELSE b

\* int() taken as rounding up
PyIntCeil(n) == (n + TicksPerSecond - 1) \div TicksPerSecond

\* int(x) of a float x given as n ticks: truncation toward zero.
PyInt(n) == IF n >= 0 THEN n \div TicksPerSecond ELSE -((-n) \div TicksPerSecond)

\* min(list) of a non-empty list
PyMin(s) == CHOOSE x \in {s[i] : i \in DOMAIN s} : \A i \in DOMAIN s : x <= s[i]

-----------------------------------------------------------------------------
\* Requests: only what _get_client_key reads.

\* Python's None, for an absent header or an absent request.client
None == <<"<None>">>

\* the sentinel key
Unknown == <<"u", "n", "k", "n", "o", "w", "n">>

\* str.split(",")[0]: what precedes the first comma
RECURSIVE FirstToken(_)
FirstToken(s) ==
    IF s = <<>> \/ Head(s) = "," THEN <<>>
    ELSE <<Head(s)>> \o FirstToken(Tail(s))

RECURSIVE LStrip(_)
LStrip(s) == IF s # <<>> /\ Head(s) = " " THEN LStrip(Tail(s)) ELSE s

RECURSIVE RStrip(_)
RStrip(s) ==
    IF s # <<>> /\ s[Len(s)] = " " THEN RStrip(SubSeq(s, 1, Len(s) - 1)) ELSE s

\* str.strip()
Strip(s) == RStrip(LStrip(s))

\* The requests the model sends: a proxied one (two hops), a direct one, a
\* proxied one that names the direct one's host with blanks around it, and one
\* with an empty header and no peer address.
Requests ==
    { [forwarded |-> <<"a", ",", " ", "b">>, host |-> <<"b">>],
      [forwarded |-> None,                   host |-> <<"b">>],
      [forwarded |-> <<" ", "b", " ">>,      host |-> <<"a">>],
      [forwarded |-> <<>>,                   host |-> None] }

get_client_key(request) ==
    IF request.forwarded # None /\ request.forwarded # <<>>
    THEN Strip(FirstToken(request.forwarded))
    ELSE IF request.host # None THEN request.host ELSE Unknown

Keys == {get_client_key(r) : r \in Requests}

-----------------------------------------------------------------------------
\* RateLimiter

\* the test of line 29 with <= for <
InWindowInclusive(current_time, ts) ==
    current_time - ts <= window_seconds * TicksPerSecond

\* line 29: the test that keeps a timestamp
InWindow(current_time, ts) ==
    current_time - ts < window_seconds * TicksPerSecond

\* a cleanup that filters every client's list, not only client_key's
cleanup_all_clients(client_key, current_time) ==
    [k \in DOMAIN clients |->
        SelectSeq(clients[k], LAMBDA ts : InWindow(current_time, ts))]

\* _cleanup_old_requests: self.clients after the call
cleanup_old_requests(client_key, current_time) ==
    IF client_key \in DOMAIN clients
    THEN [clients EXCEPT ![client_key] =
              SelectSeq(@, LAMBDA ts : InWindow(current_time, ts))]
    ELSE clients

\* lines 44-45: get or initialise the client's list
GetOrInit(cl, client_key) ==
    IF client_key \notin DOMAIN cl THEN cl @@ (client_key :> <<>>) ELSE cl

\* the test of line 49 with > for >=
OverLimitStrict(request_count) == request_count > max_requests

\* line 49: the test that rejects
OverLimit(request_count) == request_count >= max_requests

\* line 52 with the list's last entry for its least one
ResetTimeFromLast(log, current_time) ==
    PyInt(log[Len(log)] + window_seconds * TicksPerSecond - current_time)

\* line 52
ResetTime(log, current_time) ==
    PyInt(PyMin(log) + window_seconds * TicksPerSecond - current_time)

\* line 57 computed before the append
RemainingBeforeAppend(log) == max_requests - (Len(log) - 1)

\* line 57, on the list after the append
Remaining(log) == max_requests - Len(log)

\* rate_limit_dependency: what becomes of the request, given is_rate_limited's
\* answer: its exception propagates, or HTTPException 429 is raised with
\* retry_after = reset_time, or the dependency returns and the request proceeds
Response(raised, is_limited, reset_time) ==
    IF raised THEN [status |-> "ValueError", retry_after |-> 0]
    ELSE IF is_limited THEN [status |-> "429", retry_after |-> reset_time]
    ELSE [status |-> "proceeds", retry_after |-> 0]

\* One request through rate_limit_dependency: is_rate_limited(request) with
\* time.time() = current_time.  The dependency is a coroutine that never awaits
\* and is_rate_limited is synchronous, so the event loop runs each call to its
\* end before the next one starts: one action.
is_rate_limited(request, current_time) ==
    LET client_key == get_client_key(request)
        before == IF client_key \in DOMAIN clients THEN clients[client_key] ELSE <<>>
        cleaned == GetOrInit(cleanup_old_requests(client_key, current_time), client_key)
        log == cleaned[client_key]
        request_count == Len(log)
        rec(raised, lim, rem, reset, after) ==
            [key |-> client_key, now |-> current_time, raised |-> raised,
             limited |-> lim, remaining |-> rem, reset |-> reset,
             before |-> before, after |-> after,
             response |-> Response(raised, lim, reset)]
    IN  /\ constructed
        /\ IF OverLimit(request_count)
           THEN IF log = <<>>
                THEN \* min([]) raises ValueError; the empty list stays stored
                     /\ clients' = cleaned
                     /\ hist' = Append(hist, rec(TRUE, TRUE, 0, 0, log))
                ELSE /\ clients' = cleaned
                     /\ hist' = Append(hist,
                           rec(FALSE, TRUE, 0, Max2(0, ResetTime(log, current_time)), log))
           ELSE LET appended == Append(log, current_time)
                IN  /\ clients' = [cleaned EXCEPT ![client_key] = appended]
                    /\ hist' = Append(hist,
                          rec(FALSE, FALSE, Remaining(appended), window_seconds, appended))
        /\ UNCHANGED <<constructed, max_requests, window_seconds>>

\* RateLimiter.__init__: the fields once it has run
RateLimiterInit(m, w) ==
    /\ constructed = TRUE
    /\ max_requests = m
    /\ window_seconds = w
    /\ clients = <<>>
    /\ hist = <<>>

\* A limiter constructed with positive parameters, as the module-level
\* RateLimiter(max_requests=100, window_seconds=60) is.
Init ==
    \E m \in 1 .. MaxRequests, w \in 1 .. MaxWindow : RateLimiterInit(m, w)

Call == \E request \in Requests, current_time \in Ticks :
            /\ Len(hist) < MaxCalls
            /\ is_rate_limited(request, current_time)

Next == Call

Spec == Init /\ [][Next]_vars

-----------------------------------------------------------------------------
\* The constructor as an operation: RateLimiter(m, w) with any integers.
\* __init__ stores its arguments as they are and raises nothing.

CtorArgs == (-1) .. MaxRequests

InitCtor ==
    /\ constructed = FALSE
    /\ max_requests = 0
    /\ window_seconds = 0
    /\ clients = <<>>
    /\ hist = <<>>

Construct ==
    \E m \in CtorArgs, w \in CtorArgs :
        /\ ~constructed
        /\ constructed' = TRUE
        /\ max_requests' = m
        /\ window_seconds' = w
        /\ clients' = <<>>
        /\ UNCHANGED hist

NextCtor == Construct \/ Call

SpecCtor == InitCtor /\ [][NextCtor]_vars

-----------------------------------------------------------------------------
\* The worked scenario: RateLimiter(3, 60) called at 0, 10, 20, 30 and 61 s.

ScenarioSeconds == <<0, 10, 20, 30, 61>>

ScenarioTicks == {ScenarioSeconds[i] * TicksPerSecond : i \in DOMAIN ScenarioSeconds}

InitScenario == RateLimiterInit(3, 60)

\* the scenario's clients: the requests that come with a peer address
ScenarioRequests == {r \in Requests : r.host # None}

CallScenario == \E request \in ScenarioRequests, current_time \in ScenarioTicks :
                    /\ Len(hist) < Len(ScenarioSeconds)
                    /\ is_rate_limited(request, current_time)

NextScenario == CallScenario

SpecScenario == InitScenario /\ [][NextScenario]_vars

-----------------------------------------------------------------------------
\* Vocabulary of the properties, over the recorded calls.

\* the window, in ticks
WindowTicks == window_seconds * TicksPerSecond

\* the calls made so far for key k, as indices of hist
CallsOf(k) == {i \in DOMAIN hist : hist[i].key = k}

\* the calls for hist[i]'s key made before call i
Earlier(i) == {j \in CallsOf(hist[i].key) : j < i}

\* all the calls of S lie inside one window
WithinOneWindow(S) == \A i, j \in S : hist[i].now - hist[j].now < WindowTicks

Accepted(S) == {i \in S : ~hist[i].limited}
Rejected(S) == {i \in S : hist[i].limited}

Last(S) == CHOOSE i \in S : \A j \in S : j <= i

\* what eviction at time now must leave of a list: the specification's Step 1
Survivors(log, now) == SelectSeq(log, LAMBDA t : ~(now - t >= WindowTicks))

Oldest(log) == CHOOSE x \in {log[i] : i \in DOMAIN log} : \A i \in DOMAIN log : x <= log[i]
Newest(log) == CHOOSE x \in {log[i] : i \in DOMAIN log} : \A i \in DOMAIN log : x >= log[i]

\* floor of n ticks, in seconds
FloorSeconds(n) == n \div TicksPerSecond

-----------------------------------------------------------------------------
\* C1: no client's list ever holds more than max_requests timestamps, and a
\* call that finds max_requests or more entries left after eviction is
\* rejected and appends nothing.
C1_LogNeverExceedsMax ==
    /\ \A k \in DOMAIN clients : Len(clients[k]) <= max_requests
    /\ \A i \in DOMAIN hist :
          LET h == hist[i]
              left == Survivors(h.before, h.now)
          IN  Len(left) >= max_requests => h.limited /\ h.after = left

C1_Witness ==
    \E i \in DOMAIN hist :
        /\ hist[i].limited /\ ~hist[i].raised
        /\ Len(hist[i].after) = max_requests
        /\ clients[hist[i].key] = hist[i].after

\* C2: when the N >= max_requests calls made for one key all lie inside one
\* window, whatever the order in which the event loop ran them, exactly
\* max_requests of them were accepted and N - max_requests rejected.
C2_ExactlyKAccepted ==
    \A k \in Keys :
        LET S == CallsOf(k)
        IN  (Cardinality(S) >= max_requests /\ WithinOneWindow(S)) =>
                /\ Cardinality(Accepted(S)) = max_requests
                /\ Cardinality(Rejected(S)) = Cardinality(S) - max_requests

C2_Witness ==
    \E k \in Keys :
        /\ max_requests >= 2
        /\ Cardinality(CallsOf(k)) > max_requests
        /\ WithinOneWindow(CallsOf(k))
        /\ \E i, j \in CallsOf(k) : i < j /\ hist[j].now < hist[i].now
        /\ Cardinality(Accepted(CallsOf(k))) = max_requests

\* C3: on a fresh key, as long as at most max_requests calls have been made
\* and all lie inside one window, each call is allowed, remaining decreases
\* strictly from call to call and is 0 on the max_requests-th call.
C3_FirstCallsAllowed ==
    \A i \in DOMAIN hist :
        LET P == Earlier(i)
            n == Cardinality(P) + 1
        IN  (n <= max_requests /\ WithinOneWindow(P \cup {i})) =>
                /\ ~hist[i].limited
                /\ P # {} => hist[i].remaining < hist[Last(P)].remaining
                /\ hist[i].remaining >= 0
                /\ n = max_requests => hist[i].remaining = 0

C3_Witness ==
    \E i \in DOMAIN hist :
        /\ max_requests >= 2
        /\ Cardinality(Earlier(i)) + 1 = max_requests
        /\ WithinOneWindow(Earlier(i) \cup {i})
        /\ hist[i].remaining = 0
        /\ hist[i].now # hist[Last(Earlier(i))].now

\* C4: the (max_requests+1)-th call for a key inside one window is rejected
\* with remaining 0 and reset = max(0, floor(oldest + window - now)) >= 0,
\* oldest being the least timestamp of the list after eviction.
C4_NextCallRejected ==
    \A i \in DOMAIN hist :
        LET P == Earlier(i)
            h == hist[i]
        IN  (Cardinality(P) = max_requests /\ WithinOneWindow(P \cup {i})) =>
                /\ h.limited /\ ~h.raised
                /\ h.remaining = 0
                /\ h.reset = Max2(0, FloorSeconds(Oldest(Survivors(h.before, h.now))
                                                    + WindowTicks - h.now))
                /\ h.reset >= 0
                /\ h.response = [status |-> "429", retry_after |-> h.reset]

C4_Witness ==
    \E i \in DOMAIN hist :
        /\ Cardinality(Earlier(i)) = max_requests
        /\ WithinOneWindow(Earlier(i) \cup {i})
        /\ hist[i].limited
        /\ hist[i].reset = 1
        /\ hist[i].now > Oldest(hist[i].before)

\* C5: a key whose list holds max_requests entries and that is next called
\* window_seconds or more after its newest entry is allowed on that call.
C5_WindowReset ==
    \A i \in DOMAIN hist :
        LET h == hist[i]
        IN  (Len(h.before) = max_requests /\ h.now - Newest(h.before) >= WindowTicks) =>
                /\ ~h.limited /\ ~h.raised
                /\ h.response.status = "proceeds"

C5_Witness ==
    \E i \in DOMAIN hist :
        /\ Len(hist[i].before) = max_requests
        /\ hist[i].now - Newest(hist[i].before) = WindowTicks
        /\ \E j \in Earlier(i) : hist[j].limited
        /\ ~hist[i].limited

\* C6: a call for one key leaves every other key's list as it was: each call
\* finds its key's list exactly as that key's previous call left it (empty on
\* the key's first call), whatever was called for other keys in between; so
\* the first call for a fresh key is allowed, and the key is admitted
\* max_requests times in one window, also after another key was saturated.
C6_KeysIndependent ==
    \A k \in Keys :
        LET S == CallsOf(k)
        IN  /\ (S = {}) <=> (k \notin DOMAIN clients)
            /\ S # {} => clients[k] = hist[Last(S)].after
            /\ \A i \in S :
                  LET P == Earlier(i)
                  IN  /\ hist[i].before = IF P = {} THEN <<>> ELSE hist[Last(P)].after
                      /\ P = {} => ~hist[i].limited
                                     /\ hist[i].remaining = max_requests - 1
                      /\ (Cardinality(P) < max_requests /\ WithinOneWindow(P \cup {i}))
                            => ~hist[i].limited

C6_Witness ==
    \E i, j \in DOMAIN hist :
        /\ i < j
        /\ hist[i].key # hist[j].key
        /\ hist[i].limited
        /\ Earlier(j) = {}
        /\ ~hist[j].limited
        /\ hist[j].remaining = max_requests - 1
        /\ clients[hist[i].key] = hist[i].after

\* C7, as stated: on a saturated key the reset of successive rejected calls
\* does not increase as now advances, and a call at oldest + window is a
\* rejection whose reset is exactly 0.
C7_ResetReachesZeroAtBoundary ==
    \A i \in DOMAIN hist :
        LET h == hist[i]
            P == Earlier(i)
        IN  /\ (h.limited /\ P # {} /\ hist[Last(P)].limited
                   /\ h.now >= hist[Last(P)].now) => h.reset <= hist[Last(P)].reset
            /\ (Len(h.before) = max_requests
                   /\ h.now = Oldest(h.before) + WindowTicks) => h.limited /\ h.reset = 0

\* C7, amended: the reset of successive rejected calls does not increase as
\* now advances and is never negative; it is 0 exactly on the rejections made
\* less than one second before oldest + window; and a call at oldest + window
\* itself is not rejected: the oldest entry is evicted and the call is
\* accepted, with reset = window_seconds.
C7_ResetCountsDown ==
    \A i \in DOMAIN hist :
        LET h == hist[i]
            P == Earlier(i)
        IN  /\ (h.limited /\ P # {} /\ hist[Last(P)].limited
                   /\ h.now >= hist[Last(P)].now) => h.reset <= hist[Last(P)].reset
            /\ h.limited =>
                  /\ h.reset >= 0
                  /\ h.reset = 0 <=>
                        Oldest(h.after) + WindowTicks - h.now < TicksPerSecond
                  /\ h.now < Oldest(h.after) + WindowTicks
            /\ (Len(h.before) = max_requests
                   /\ h.now = Oldest(h.before) + WindowTicks) =>
                  ~h.limited /\ h.reset = window_seconds

C7_Witness ==
    \E i \in DOMAIN hist :
        /\ Earlier(i) # {}
        /\ hist[i].limited /\ hist[Last(Earlier(i))].limited
        /\ hist[i].now > hist[Last(Earlier(i))].now
        /\ hist[Last(Earlier(i))].reset = 1
        /\ hist[i].reset = 0

\* C9: right after a call at time now, every timestamp t of the key's list
\* has now - t < window; the call evicted exactly the entries with
\* now - t >= window and kept the others, in order.
C9_EvictionExact ==
    \A i \in DOMAIN hist :
        LET h == hist[i]
            kept == IF h.limited THEN h.after ELSE SubSeq(h.after, 1, Len(h.after) - 1)
        IN  /\ \A n \in DOMAIN h.after : h.now - h.after[n] < WindowTicks
            /\ kept = Survivors(h.before, h.now)
            /\ i = Len(hist) => clients[h.key] = h.after

C9_Witness ==
    \E i \in DOMAIN hist :
        LET left == Survivors(hist[i].before, hist[i].now)
        IN  /\ left # <<>>
            /\ Len(left) < Len(hist[i].before)
            /\ \E n \in DOMAIN hist[i].before :
                  hist[i].now - hist[i].before[n] = WindowTicks

\* what the scenario's calls return, in order
ScenarioExpected ==
    << [limited |-> FALSE, remaining |-> 2, reset |-> 60],
       [limited |-> FALSE, remaining |-> 1, reset |-> 60],
       [limited |-> FALSE, remaining |-> 0, reset |-> 60],
       [limited |-> TRUE,  remaining |-> 0, reset |-> 30],
       [limited |-> FALSE, remaining |-> 0, reset |-> 60] >>

\* the i-th call is the n-th call of its key, and the key's calls so far were
\* made at the scenario's first n times
FollowsScenario(i) ==
    LET S == Earlier(i) \cup {i}
    IN  \A j \in S :
            hist[j].now = ScenarioSeconds[Cardinality(Earlier(j)) + 1] * TicksPerSecond

\* C10: an accepted call appends now to what eviction left, returns
\* remaining = max_requests - (entries after the append) and reset =
\* window_seconds; and with window 60, max 3 and calls at 0, 10, 20, 30, 61 s
\* the answers are allowed with remaining 2, 1, 0, rejected with reset 30,
\* allowed with remaining 0 (only the entry of t = 0 is evicted at t = 61).
C10_AcceptAndScenario ==
    \A i \in DOMAIN hist :
        LET h == hist[i]
            n == Cardinality(Earlier(i)) + 1
        IN  /\ ~h.limited =>
                  /\ h.after = Append(Survivors(h.before, h.now), h.now)
                  /\ h.remaining = max_requests - Len(h.after)
                  /\ h.reset = window_seconds
            /\ FollowsScenario(i) =>
                  /\ h.limited = ScenarioExpected[n].limited
                  /\ h.remaining = ScenarioExpected[n].remaining
                  /\ h.reset = ScenarioExpected[n].reset
                  /\ n = 5 => h.after = << 10 * TicksPerSecond, 20 * TicksPerSecond,
                                           61 * TicksPerSecond >>

C10_Witness ==
    /\ Len(hist) = 5
    /\ FollowsScenario(5)
    /\ Cardinality(Earlier(5)) = 4
    /\ ~hist[5].limited /\ hist[5].remaining = 0
    /\ hist[4].limited /\ hist[4].reset = 30

\* C8, as stated: no limiter with a non-positive parameter exists or answers
\* a call.
C8_NoNonPositiveLimiter ==
    (constructed \/ hist # <<>>) => (max_requests > 0 /\ window_seconds > 0)

\* the calls of S were made at non-decreasing times
NonDecreasing(S) == \A i, j \in S : i < j => hist[i].now <= hist[j].now

\* the accepted calls of S made in the half-open interval (T - window, T]
AcceptedIn(S, T) ==
    {i \in Accepted(S) : T - WindowTicks < hist[i].now /\ hist[i].now <= T}

\* C11: when a key's calls are made at non-decreasing times, at most
\* max_requests of its accepted calls fall in any interval (T - window, T];
\* a rejected call is not recorded, so each call is admitted exactly when
\* fewer than max_requests earlier accepted calls are less than a window old,
\* and the key's list is the times of those accepted calls, in order.
C11_SlidingWindowBound ==
    \A k \in Keys :
        LET S == CallsOf(k)
        IN  NonDecreasing(S) =>
              /\ \A T \in 0 .. (MaxTick + WindowTicks) :
                    Cardinality(AcceptedIn(S, T)) <= max_requests
              /\ \A i \in S :
                    LET h == hist[i]
                        recent == {j \in Accepted(Earlier(i)) :
                                      h.now - hist[j].now < WindowTicks}
                    IN  /\ ~h.limited <=> Cardinality(recent) < max_requests
                        /\ Len(h.after) = Cardinality(recent)
                                             + (IF h.limited THEN 0 ELSE 1)
                        /\ \A n \in DOMAIN h.after :
                              \E j \in recent \cup {i} :
                                  ~hist[j].limited /\ hist[j].now = h.after[n]

C11_Witness ==
    \E i, j, l \in DOMAIN hist :
        /\ i < j /\ j < l
        /\ hist[i].key = hist[j].key /\ hist[j].key = hist[l].key
        /\ NonDecreasing(CallsOf(hist[i].key))
        /\ ~hist[i].limited /\ hist[j].limited /\ ~hist[l].limited
        /\ hist[i].now < hist[j].now /\ hist[j].now < hist[l].now
        /\ hist[l].now - hist[j].now < WindowTicks
        /\ Cardinality(AcceptedIn(CallsOf(hist[i].key), hist[j].now)) = max_requests
====
